---- MODULE Spec2Model ----
(***************************************************************************)
(* Model of the object index / remote store handlers of the S3 file        *)
(* manager: src/main-process/ipc-handlers/main-api/object-handler.js and   *)
(* settings-handler.js, and of the request pool of the settings view.      *)
(*                                                                         *)
(* A virtual path is a sequence of characters; characters are small        *)
(* naturals, Slash being the separator and 1..MaxName the letters.         *)
(***************************************************************************)
EXTENDS Integers, Sequences, FiniteSets, TLC

\* ------------------------------------------------------------- bounds ----
MaxName == 2          \* letters of the alphabet: 1..MaxName
MaxIdsLen == 2        \* longest ids list handed to deleteObjects/downloadObjects
MaxLimit == 2         \* largest page size handed to getObjects
MaxUpdates == 3       \* updateS3Settings calls in one behaviour
MaxRequests == 3      \* sync/save requests the settings view starts in one behaviour

\* ---------------------------------------------------------- constants ----
Slash == 0
FOLDER == 1
FILE == 2
MAIN_SETTINGS_ID == 1

Names == 1..MaxName
Chars == {Slash} \cup Names

\* ------------------------------------------------- path helper functions --
IsFolderPath(p) == Len(p) > 0 /\ p[Len(p)] = Slash

Trim(p) == IF IsFolderPath(p) THEN SubSeq(p, 1, Len(p) - 1) ELSE p

LastSlash(s) ==
    IF \E i \in 1..Len(s) : s[i] = Slash
        THEN CHOOSE i \in 1..Len(s) : s[i] = Slash /\ \A j \in (i + 1)..Len(s) : s[j] # Slash
        ELSE 0

\* ObjectModel.dirname: the parent directory portion, without trailing slash
Dirname(p) ==
    LET t == Trim(p)
        k == LastSlash(t)
    IN  IF k = 0 THEN <<>> ELSE SubSeq(t, 1, k - 1)

\* ObjectModel.basename: the final path segment
Basename(p) ==
    LET t == Trim(p)
        k == LastSlash(t)
    IN  SubSeq(t, k + 1, Len(t))

StartsWith(s, pre) == Len(pre) <= Len(s) /\ SubSeq(s, 1, Len(pre)) = pre

Contains(s, sub) ==
    \E i \in 0..(Len(s) - Len(sub)) : SubSeq(s, i + 1, i + Len(sub)) = sub

\* byte-order comparison of two strings (Op.gt on a text column)
StrGt(a, b) ==
    \/ \E i \in 1..Len(a) :
            /\ i <= Len(b)
            /\ a[i] > b[i]
            /\ \A j \in 1..(i - 1) : a[j] = b[j]
    \/ Len(a) > Len(b) /\ SubSeq(a, 1, Len(b)) = b

\* utils.generateLikeSyntax(value, {start: ''}) matched with Op.like: prefix match
LikePrefix(s, value) == StartsWith(s, value)

\* utils.generateLikeSyntax(value) matched with Op.like: substring match
LikeContains(s, value) == Contains(s, value)

\* the path createFolder builds (line 414)
FolderPath(dirname, basename) ==
    IF dirname # <<>>
        THEN dirname \o <<Slash>> \o basename \o <<Slash>>
        ELSE basename \o <<Slash>>

\* the path createFile builds (line 461)
FilePath(dirname, basename) ==
    IF dirname # <<>>
        THEN dirname \o <<Slash>> \o basename
        ELSE basename

\* ------------------------------------------------------------ records ----
Rec(i, t, p) == [id |-> i, type |-> t, path |-> p]

IdsOf(recs) == {r.id : r \in recs}
PathsOf(recs) == {r.path : r \in recs}

\* rows of a set of records as a sequence in id order (a findAll without order)
RECURSIVE ById(_)
ById(recs) ==
    IF recs = {} THEN <<>>
    ELSE LET r == CHOOSE x \in recs : \A y \in recs : x.id <= y.id
         IN  <<r>> \o ById(recs \ {r})

SeqToSet(s) == {s[i] : i \in 1..Len(s)}

\* ------------------------------------------------------------- state -----
VARIABLES
    index,      \* the object table: a set of records
    remote,     \* the bucket: the set of paths that hold an object
    nextId,     \* next autoincrement id of the object table
    cpc,        \* create call of each creator: position
    cobj,       \* its `object`: the record under construction
    cparent,    \* its `parent`: whether the parent lookup found a record
    cerr,       \* the error caught by createFile's catch block
    cres,       \* its outcome once it returned
    cconf,      \* frontendOperationValue of the ConflictError it threw
    ccalls,     \* remote calls it issued
    cins,       \* whether its insert succeeded
    bpc,        \* the bulk call (deleteObjects / downloadObjects): position
    bop,        \* which of the two handlers it runs
    bmissing,   \* whether `ids` named an id that has no record
    bobjects,   \* its `objects`
    bi,         \* the next object whose expansion the limiter will start
    bdeep,      \* expansions in flight: the query results that have come back
    bfiles,     \* its `files`
    bfolders,   \* its `folders`
    tRemote,    \* the s3.deleteObjects request of the current batch
    tLocal,     \* the ObjectModel.destroy request of the current batch
    bres,       \* its outcome once it returned
    bpassed,    \* paths it has passed to s3.deleteObjects
    bdirty,     \* another call changed the index after the bulk call started
    bunder,     \* paths that were under the selected folders when it started
    bj,         \* the next file whose transfer the limiter will start
    bstream,    \* transfers in flight: the state of each
    bwritten,   \* paths written to the local disk
    bfailed,    \* the streams ("read", "write") that emitted an error in a transfer
    lpc,        \* the paging caller of getObjects: position
    largs,      \* dirname, keyword and limit it passes on every call
    lafter,     \* the `after` of the call in progress (0: none)
    lcursor,    \* the `cursor` record that call has read
    litems,     \* `items` of the last page returned
    lhasNext,   \* `hasNextPage` of the last page returned
    lall,       \* every item returned so far, in order
    lres,       \* outcome of the paging session
    lsnap,      \* the index as it was when the session started
    stable,     \* the settings table: a set of records
    spc,        \* the updateS3Settings call: position
    sargs,      \* its arguments
    sret,       \* the settings it returned last
    s3conf,     \* the settings the s3 adapter was last given
    scount,     \* updateS3Settings calls made so far
    gpc,        \* the getObject call: position
    gobj,       \* its `object`
    gct,        \* ContentType of the headers headObject returned
    gurl,       \* `expiresIn` of the signed url of its result ("none": no url)
    gres,       \* its outcome once it returned
    vpc,        \* settings view: position of the handler of each request
    vkind,      \* which handler runs the request ("sync" or "save")
    vnext,      \* requests started so far, plus one
    vqueue,     \* state updates passed to setState and not yet applied
    requestPool,        \* this.state.requestPool
    isSyncSuccess,      \* this.state.isSyncSuccess
    isSubmitSuccess     \* this.state.isSubmitSuccess

createVars == <<cpc, cobj, cparent, cerr, cres, cconf, ccalls, cins>>
bulkVars == <<bpc, bop, bmissing, bobjects, bi, bdeep, bfiles, bfolders, tRemote, tLocal,
              bres, bpassed, bj, bstream, bwritten, bfailed>>
listVars == <<lpc, largs, lafter, lcursor, litems, lhasNext, lall, lres, lsnap>>
setVars == <<stable, spc, sargs, sret, s3conf, scount>>
getVars == <<gpc, gobj, gct, gurl, gres>>
viewVars == <<vpc, vkind, vnext, vqueue, requestPool, isSyncSuccess, isSubmitSuccess>>
vars == <<index, remote, nextId, createVars, bulkVars, bdirty, bunder, listVars, setVars,
          getVars, viewVars>>

Creators == {"c1", "c2"}
NoRec == Rec(0, 0, <<>>)
NoTask == [st |-> "none", paths |-> <<>>, ids |-> {}]
NoDeep == [files |-> <<>>, folders |-> <<>>, got |-> {}]
NoTasks == <<>>

\* ------------------------------------------------------ initial state ----
\* index contents the program can have built before the behaviour starts
SeedIndexes ==
    { {},
      {Rec(1, FOLDER, <<1, Slash>>)},
      {Rec(1, FOLDER, <<1, Slash>>), Rec(2, FOLDER, <<1, Slash, 2, Slash>>),
       Rec(3, FILE, <<1, Slash, 2, Slash, 1>>), Rec(4, FILE, <<1, Slash, 1>>)} }

InitCreate ==
    /\ cpc = [p \in Creators |-> "idle"]
    /\ cobj = [p \in Creators |-> NoRec]
    /\ cparent = [p \in Creators |-> FALSE]
    /\ cerr = [p \in Creators |-> "none"]
    /\ cres = [p \in Creators |-> "none"]
    /\ cconf = [p \in Creators |-> <<>>]
    /\ ccalls = [p \in Creators |-> 0]
    /\ cins = [p \in Creators |-> FALSE]

InitBulk ==
    /\ bpc = "idle"
    /\ bop = "none"
    /\ bmissing = FALSE
    /\ bobjects = <<>>
    /\ bi = 0
    /\ bdeep = NoTasks
    /\ bfiles = <<>>
    /\ bfolders = <<>>
    /\ tRemote = NoTask
    /\ tLocal = NoTask
    /\ bres = "none"
    /\ bpassed = {}
    /\ bdirty = FALSE
    /\ bunder = {}
    /\ bj = 0
    /\ bstream = NoTasks
    /\ bfailed = {}
    /\ bwritten = <<>>

NoListArgs == [dirname |-> <<>>, keyword |-> <<>>, limit |-> 0]

InitList ==
    /\ lpc = "idle"
    /\ largs = NoListArgs
    /\ lafter = 0
    /\ lcursor = NoRec
    /\ litems = <<>>
    /\ lhasNext = FALSE
    /\ lall = <<>>
    /\ lres = "none"
    /\ lsnap = {}

NoSettings == [accessKeyId |-> "", secretAccessKey |-> "", region |-> "", bucket |-> "",
               endpoint |-> ""]

InitSettings ==
    /\ stable = {}
    /\ spc = "idle"
    /\ sargs = NoSettings
    /\ sret = NoSettings
    /\ s3conf = NoSettings
    /\ scount = 0

InitGet ==
    /\ gpc = "idle"
    /\ gobj = NoRec
    /\ gct = "none"
    /\ gurl = "none"
    /\ gres = "none"

\* lines 21-32 of the view: the state the constructor sets
InitView ==
    /\ vpc = <<>>
    /\ vkind = <<>>
    /\ vnext = 1
    /\ vqueue = <<>>
    /\ requestPool = {}
    /\ isSyncSuccess = FALSE
    /\ isSubmitSuccess = FALSE

Init ==
    /\ index \in SeedIndexes
    /\ remote = PathsOf(index)
    /\ nextId = Cardinality(index) + 1
    /\ InitCreate
    /\ InitBulk
    /\ InitList
    /\ InitSettings
    /\ InitGet
    /\ InitView

\* ------------------------------------------------- createFolder/createFile
Basenames == {<<n>> : n \in Names}
Dirnames == {<<>>, <<1>>, <<1, Slash, 2>>}

BulkStarted == bpc # "idle"

\* lines 411-428 / 457-481: build the object from the arguments, look the
\* parent folder up when the object is not at the root
CreateCallImpl(p, kind, dirname, basename, lookup) ==
    LET path == IF kind = FOLDER THEN FolderPath(dirname, basename)
                                 ELSE FilePath(dirname, basename)
        found == \E r \in index : r.type = FOLDER /\ r.path = Dirname(path) \o <<Slash>>
    IN  /\ cpc[p] = "idle"
        /\ cobj' = [cobj EXCEPT ![p] = Rec(0, kind, path)]
        /\ IF lookup /\ Dirname(path) # <<>>
             THEN /\ cparent' = [cparent EXCEPT ![p] = found]
                  /\ IF found
                       THEN /\ cpc' = [cpc EXCEPT ![p] = "save"]
                            /\ cres' = cres
                       ELSE /\ cpc' = [cpc EXCEPT ![p] = "done"]
                            /\ cres' = [cres EXCEPT ![p] = "NotFoundError"]
             ELSE /\ cpc' = [cpc EXCEPT ![p] = "save"]
                  /\ UNCHANGED <<cparent, cres>>
        /\ UNCHANGED <<index, remote, nextId, cerr, cconf, ccalls, cins, bulkVars, bdirty, bunder>>

\* the call with the parent lookup left out
CreateCall_NoParentCheck(p, kind, dirname, basename) ==
    CreateCallImpl(p, kind, dirname, basename, FALSE)

CreateCall(p, kind, dirname, basename) ==
    CreateCallImpl(p, kind, dirname, basename, TRUE)

\* lines 430-444 / 483-497: insert the record; a path collision is a ConflictError
SaveNewImpl(p, unique) ==
    /\ cpc[p] = "save"
    /\ \/ /\ unique
          /\ \E r \in index : r.path = cobj[p].path
          /\ cpc' = [cpc EXCEPT ![p] = "done"]
          /\ cres' = [cres EXCEPT ![p] = "ConflictError"]
          /\ cconf' = [cconf EXCEPT ![p] = cobj[p].path]
          /\ UNCHANGED <<index, nextId, cobj, cins, bdirty>>
       \/ /\ unique => ~ \E r \in index : r.path = cobj[p].path
          /\ index' = index \cup {Rec(nextId, cobj[p].type, cobj[p].path)}
          /\ nextId' = nextId + 1
          /\ cobj' = [cobj EXCEPT ![p].id = nextId]
          /\ cins' = [cins EXCEPT ![p] = TRUE]
          /\ cpc' = [cpc EXCEPT ![p] = IF cobj[p].type = FOLDER THEN "put" ELSE "upload"]
          /\ bdirty' = (bdirty \/ BulkStarted)
          /\ UNCHANGED <<cres, cconf>>
       \/ \* the store rejects the insert for another reason: rethrown as is
          /\ cpc' = [cpc EXCEPT ![p] = "done"]
          /\ cres' = [cres EXCEPT ![p] = "SaveError"]
          /\ UNCHANGED <<index, nextId, cobj, cins, cconf, bdirty>>
    /\ UNCHANGED <<remote, cparent, cerr, ccalls, bulkVars, bunder>>

\* the insert without the unique constraint on path
SaveNew_NoUnique(p) == SaveNewImpl(p, FALSE)

SaveNew(p) == SaveNewImpl(p, TRUE)

\* lines 446-447: createFolder's s3.putObject, issued when the call is `at`
PutObjectImpl(p, at) ==
    /\ cpc[p] \in at
    /\ ccalls' = [ccalls EXCEPT ![p] = @ + 1]
    /\ cpc' = [cpc EXCEPT ![p] = "done"]
    /\ \/ /\ remote' = remote \cup {cobj[p].path}
          /\ cres' = [cres EXCEPT ![p] = "ok"]
       \/ /\ remote' = remote
          /\ cres' = [cres EXCEPT ![p] = "PutError"]
    /\ UNCHANGED <<index, nextId, cobj, cparent, cerr, cconf, cins, bulkVars, bdirty, bunder>>

\* the putObject issued without waiting for the insert
PutObject_BeforeSave(p) == PutObjectImpl(p, {"save", "put"})

PutObject(p) == PutObjectImpl(p, {"put"})

\* lines 499-508: createFile's s3.upload
Upload(p) ==
    /\ cpc[p] = "upload"
    /\ ccalls' = [ccalls EXCEPT ![p] = @ + 1]
    /\ \/ /\ remote' = remote \cup {cobj[p].path}
          /\ cpc' = [cpc EXCEPT ![p] = "head"]
          /\ cerr' = cerr
       \/ /\ remote' = remote
          /\ cpc' = [cpc EXCEPT ![p] = "destroy"]
          /\ cerr' = [cerr EXCEPT ![p] = "UploadError"]
    /\ UNCHANGED <<index, nextId, cobj, cparent, cres, cconf, cins, bulkVars, bdirty, bunder>>

\* line 509: s3.headObject, which fails when the object is absent remotely
HeadObject(p) ==
    /\ cpc[p] = "head"
    /\ ccalls' = [ccalls EXCEPT ![p] = @ + 1]
    /\ \/ /\ cobj[p].path \in remote
          /\ cpc' = [cpc EXCEPT ![p] = "update"]
          /\ cerr' = cerr
       \/ /\ cpc' = [cpc EXCEPT ![p] = "destroy"]
          /\ cerr' = [cerr EXCEPT ![p] = "HeadError"]
    /\ UNCHANGED <<index, remote, nextId, cobj, cparent, cres, cconf, cins, bulkVars, bdirty, bunder>>

\* lines 511-513: persist size and lastModified (an UPDATE by id)
SaveUpdate(p) ==
    /\ cpc[p] = "update"
    /\ \/ /\ cpc' = [cpc EXCEPT ![p] = "done"]
          /\ cres' = [cres EXCEPT ![p] = "ok"]
          /\ cerr' = cerr
       \/ /\ cpc' = [cpc EXCEPT ![p] = "destroy"]
          /\ cerr' = [cerr EXCEPT ![p] = "UpdateError"]
          /\ cres' = cres
    /\ UNCHANGED <<index, remote, nextId, cobj, cparent, cconf, ccalls, cins, bulkVars, bdirty, bunder>>

\* lines 514-518: the catch block: destroy the provisional record, rethrow
DestroyProvisionalImpl(p, destroys) ==
    /\ cpc[p] = "destroy"
    /\ cpc' = [cpc EXCEPT ![p] = "done"]
    /\ \/ /\ index' = IF destroys THEN {r \in index : r.id # cobj[p].id} ELSE index
          /\ cres' = [cres EXCEPT ![p] = cerr[p]]
          /\ bdirty' = (bdirty \/ BulkStarted)
       \/ /\ index' = index
          /\ cres' = [cres EXCEPT ![p] = "DestroyError"]
          /\ bdirty' = bdirty
    /\ UNCHANGED <<remote, nextId, cobj, cparent, cerr, cconf, ccalls, cins, bulkVars, bunder>>

\* the catch block rethrowing without the compensating destroy
DestroyProvisional_Keep(p) == DestroyProvisionalImpl(p, FALSE)

DestroyProvisional(p) == DestroyProvisionalImpl(p, TRUE)

EngineFrame == UNCHANGED <<listVars, setVars, getVars, viewVars>>

createFolder(p) ==
    \/ EngineFrame /\ \E d \in Dirnames, b \in Basenames : CreateCall(p, FOLDER, d, b)
    \/ EngineFrame /\ cobj[p].type = FOLDER /\ SaveNew(p)
    \/ EngineFrame /\ cobj[p].type = FOLDER /\ PutObject(p)

createFile(p) ==
    \/ EngineFrame /\ \E d \in Dirnames, b \in Basenames : CreateCall(p, FILE, d, b)
    \/ EngineFrame /\ cobj[p].type = FILE /\ SaveNew(p)
    \/ EngineFrame /\ cobj[p].type = FILE /\ Upload(p)
    \/ EngineFrame /\ cobj[p].type = FILE /\ HeadObject(p)
    \/ EngineFrame /\ cobj[p].type = FILE /\ SaveUpdate(p)
    \/ EngineFrame /\ cobj[p].type = FILE /\ DestroyProvisional(p)

\* ------------------------------------------- deleteObjects/downloadObjects
\* the ids lists a caller can pass: existing ids and one id that has no record
IdLists(idx) ==
    LET dom == IdsOf(idx) \cup {nextId}
    IN  UNION {[1..n -> dom] : n \in 1..MaxIdsLen}

\* findAll({where: {id: {[Op.in]: ids}}})
FindByIds(idx, ids) == ById({r \in idx : r.id \in SeqToSet(ids)})

\* the validation left out
DeleteValidation_None(objects, ids) == "pass"

\* lines 618-626: deleteObjects' validation of `objects` against `ids`
DeleteValidation(objects, ids) ==
    IF Len(objects) # Len(ids)
         /\ \E k \in 1..Len(ids) : ids[k] \notin {objects[n].id : n \in 1..Len(objects)}
        THEN "NotFoundError"
        ELSE "pass"

\* lines 538-548: downloadObjects' validation of `objects` against `ids`
DownloadValidation(objects, ids) ==
    IF Len(objects) # Len(ids) THEN "NotFoundError" ELSE "pass"

\* number of segments of path.split('/')
RECURSIVE SplitLen(_)
SplitLen(p) ==
    IF p = <<>> THEN 1
    ELSE (IF Head(p) = Slash THEN 1 ELSE 0) + SplitLen(Tail(p))

\* lines 664-666: paths.sort((a, b) => b.split('/').length - a.split('/').length)
RECURSIVE InsertByDepth(_, _)
InsertByDepth(sorted, x) ==
    IF sorted = <<>> THEN <<x>>
    ELSE IF SplitLen(x) - SplitLen(Head(sorted)) > 0
            THEN <<x>> \o sorted
            ELSE <<Head(sorted)>> \o InsertByDepth(Tail(sorted), x)

\* the folder paths passed on in the order they were collected
SortByDepth_Unsorted(paths) == paths

RECURSIVE SortByDepth(_)
SortByDepth(paths) ==
    IF paths = <<>> THEN <<>>
    ELSE InsertByDepth(SortByDepth(SubSeq(paths, 1, Len(paths) - 1)), paths[Len(paths)])

PathSeq(recs) == [k \in 1..Len(recs) |-> recs[k].path]
IdSet(recs) == {recs[k].id : k \in 1..Len(recs)}

\* the expansion matching direct children only
Deep_Children(idx, type, path) ==
    ById({r \in idx : r.type = type /\ (r.path = path \/ Dirname(r.path) \o <<Slash>> = path)})

\* findAll({where: {type, path: {[Op.like]: generateLikeSyntax(path, {start: ''})}}})
Deep(idx, type, path) == ById({r \in idx : r.type = type /\ LikePrefix(r.path, path)})

\* lines 608-626 / 531-548: fetch the records of `ids` and validate
BulkCall(op, ids) ==
    LET objects == FindByIds(index, ids)
        verdict == IF op = "delete" THEN DeleteValidation(objects, ids)
                                    ELSE DownloadValidation(objects, ids)
    IN  /\ bpc = "idle"
        /\ bop' = op
        /\ bmissing' = (\E k \in 1..Len(ids) : ids[k] \notin IdsOf(index))
        /\ bobjects' = objects
        /\ IF verdict = "pass"
             THEN /\ bpc' = "expand"
                  /\ bi' = 1
                  /\ bres' = bres
             ELSE /\ bpc' = "done"
                  /\ bi' = bi
                  /\ bres' = verdict
        /\ bunder' = {r.path : r \in {x \in index : \E k \in 1..Len(objects) :
                            objects[k].type = FOLDER /\ StartsWith(x.path, objects[k].path)}}
        /\ UNCHANGED <<index, remote, nextId, createVars, bdeep, bfiles, bfolders,
                       tRemote, tLocal, bpassed, bdirty, bj, bstream, bwritten, bfailed>>

\* lines 551, 609: pLimit(1)
Concurrency == 1

ActiveCount == Cardinality(DOMAIN bdeep) + Cardinality(DOMAIN bstream)

\* the tasks handed to the limiter all start at once
LimitAdmits_Unlimited == TRUE

\* p-limit starts a queued task when fewer than `concurrency` tasks are running
LimitAdmits == ActiveCount < Concurrency

With(f, k, v) == [x \in DOMAIN f \cup {k} |-> IF x = k THEN v ELSE f[x]]
Without(f, k) == [x \in DOMAIN f \ {k} |-> f[x]]

\* lines 628-650 / 558-572: Promise.all over the expansions has resolved
ExpansionsDone == bi > Len(bobjects) /\ DOMAIN bdeep = {}

\* lines 629-630 / 559-562: the limiter runs the task of a FILE object, which
\* pushes it to `files` and ends
ExpandFile ==
    /\ bpc = "expand"
    /\ bi <= Len(bobjects)
    /\ bobjects[bi].type = FILE
    /\ LimitAdmits
    /\ bfiles' = Append(bfiles, bobjects[bi])
    /\ bi' = bi + 1
    /\ UNCHANGED <<index, remote, nextId, createVars, bpc, bop, bmissing, bobjects, bdeep,
                   bfolders, tRemote, tLocal, bres, bpassed, bdirty, bunder, bj, bstream,
                   bwritten, bfailed>>

\* lines 632-645 / 564-569: the limiter runs the task of a FOLDER object, which
\* issues its queries
ExpandStart ==
    /\ bpc = "expand"
    /\ bi <= Len(bobjects)
    /\ bobjects[bi].type # FILE
    /\ LimitAdmits
    /\ bdeep' = With(bdeep, bi, NoDeep)
    /\ bi' = bi + 1
    /\ UNCHANGED <<index, remote, nextId, createVars, bpc, bop, bmissing, bobjects, bfiles,
                   bfolders, tRemote, tLocal, bres, bpassed, bdirty, bunder, bj, bstream,
                   bwritten, bfailed>>

\* lines 632-648 / 564-571: one of the queries of a FOLDER object comes back;
\* when the last one is back the results are pushed to `files` and `folders`
\* and the task ends
ExpandFolder(q) ==
    \E i \in DOMAIN bdeep :
        LET wanted == IF bop = "delete" THEN {"files", "folders"} ELSE {"files"}
            rows == Deep(index, IF q = "files" THEN FILE ELSE FOLDER, bobjects[i].path)
            deep == [bdeep[i] EXCEPT ![q] = rows, !.got = @ \cup {q}]
        IN  /\ bpc = "expand"
            /\ q \in wanted \ bdeep[i].got
            /\ IF deep.got = wanted
                 THEN /\ bfiles' = bfiles \o deep.files
                      /\ bfolders' = bfolders \o deep.folders
                      /\ bdeep' = Without(bdeep, i)
                 ELSE /\ bdeep' = With(bdeep, i, deep)
                      /\ UNCHANGED <<bfiles, bfolders>>
            /\ UNCHANGED <<index, remote, nextId, createVars, bpc, bop, bmissing, bobjects, bi,
                           tRemote, tLocal, bres, bpassed, bdirty, bunder, bj, bstream,
                           bwritten, bfailed>>

\* lines 652-658: the file batch is issued: remote delete and destroy together
IssueFiles ==
    /\ bpc = "expand" /\ bop = "delete"
    /\ ExpansionsDone
    /\ Len(bfiles) > 0
    /\ bpc' = "files"
    /\ tRemote' = [st |-> "pending", paths |-> PathSeq(bfiles), ids |-> {}]
    /\ tLocal' = [st |-> "pending", paths |-> <<>>, ids |-> IdSet(bfiles)]
    /\ bpassed' = bpassed \cup SeqToSet(PathSeq(bfiles))
    /\ UNCHANGED <<index, remote, nextId, createVars, bop, bmissing, bobjects, bi, bdeep,
                   bfiles, bfolders, bres, bdirty, bunder, bj, bstream, bwritten, bfailed>>

\* lines 652-659: the file batch, when there is one, has been awaited
FilesAwaited_Not == TRUE

FilesAwaited == tRemote.st = "ok" /\ tLocal.st = "ok"

\* lines 661-672: the folder batch is issued, deepest paths first
IssueFolders ==
    /\ bop = "delete"
    /\ \/ bpc = "expand" /\ ExpansionsDone /\ Len(bfiles) = 0
       \/ bpc = "files" /\ FilesAwaited
    /\ Len(bfolders) > 0
    /\ bpc' = "folders"
    /\ tRemote' = [st |-> "pending", paths |-> SortByDepth(PathSeq(bfolders)), ids |-> {}]
    /\ tLocal' = [st |-> "pending", paths |-> <<>>, ids |-> IdSet(bfolders)]
    /\ bpassed' = bpassed \cup SeqToSet(PathSeq(bfolders))
    /\ UNCHANGED <<index, remote, nextId, createVars, bop, bmissing, bobjects, bi, bdeep,
                   bfiles, bfolders, bres, bdirty, bunder, bj, bstream, bwritten, bfailed>>

\* line 674: return null
DeleteReturn ==
    /\ bop = "delete" /\ bres = "none"
    /\ \/ bpc = "expand" /\ ExpansionsDone /\ Len(bfiles) = 0 /\ Len(bfolders) = 0
       \/ bpc = "files" /\ FilesAwaited /\ Len(bfolders) = 0
       \/ bpc = "folders" /\ tRemote.st = "ok" /\ tLocal.st = "ok"
    /\ bpc' = "done"
    /\ bres' = "ok"
    /\ UNCHANGED <<index, remote, nextId, createVars, bop, bmissing, bobjects, bi, bdeep,
                   bfiles, bfolders, tRemote, tLocal, bpassed, bdirty, bunder, bj, bstream, bwritten, bfailed>>

\* Promise.all rejects as soon as one of its promises rejects
Rejects(st, error) == IF st = "err" /\ bres = "none" THEN error ELSE bres
PcAfter(st) == IF st = "err" /\ bres = "none" THEN "done" ELSE bpc

\* s3.deleteObjects(paths) settles (lines 654, 663)
RemoteDeleteSettles ==
    /\ tRemote.st = "pending"
    /\ \E st \in {"ok", "err"} :
        /\ tRemote' = [tRemote EXCEPT !.st = st]
        /\ remote' = IF st = "ok" THEN remote \ SeqToSet(tRemote.paths) ELSE remote
        /\ bres' = Rejects(st, "RemoteError")
        /\ bpc' = PcAfter(st)
    /\ UNCHANGED <<index, nextId, createVars, bop, bmissing, bobjects, bi, bdeep, bfiles,
                   bfolders, tLocal, bpassed, bdirty, bunder, bj, bstream, bwritten, bfailed>>

\* ObjectModel.destroy({where: {id: {[Op.in]: ids}}}) settles (lines 655, 668)
LocalDestroySettles ==
    /\ tLocal.st = "pending"
    /\ \E st \in {"ok", "err"} :
        /\ tLocal' = [tLocal EXCEPT !.st = st]
        /\ index' = IF st = "ok" THEN {r \in index : r.id \notin tLocal.ids} ELSE index
        /\ bres' = Rejects(st, "DestroyError")
        /\ bpc' = PcAfter(st)
    /\ UNCHANGED <<remote, nextId, createVars, bop, bmissing, bobjects, bi, bdeep, bfiles,
                   bfolders, tRemote, bpassed, bdirty, bunder, bj, bstream, bwritten, bfailed>>

deleteObjects ==
    \/ EngineFrame /\ \E ids \in IdLists(index) : BulkCall("delete", ids)
    \/ EngineFrame /\ bop = "delete" /\ ExpandFile
    \/ EngineFrame /\ bop = "delete" /\ ExpandStart
    \/ EngineFrame /\ bop = "delete" /\ ExpandFolder("files")
    \/ EngineFrame /\ bop = "delete" /\ ExpandFolder("folders")
    \/ EngineFrame /\ bop = "delete" /\ IssueFiles
    \/ EngineFrame /\ bop = "delete" /\ IssueFolders
    \/ EngineFrame /\ bop = "delete" /\ DeleteReturn
    \/ EngineFrame /\ bop = "delete" /\ RemoteDeleteSettles
    \/ EngineFrame /\ bop = "delete" /\ LocalDestroySettles

\* lines 572-574: Promise.all over the expansions has resolved and the
\* transfers of `files` are handed to the limiter
StartTransfers ==
    /\ bpc = "expand" /\ bop = "download"
    /\ ExpansionsDone
    /\ bpc' = "transfer"
    /\ bj' = 1
    /\ UNCHANGED <<index, remote, nextId, createVars, bop, bmissing, bobjects, bi, bdeep,
                   bfiles, bfolders, tRemote, tLocal, bres, bpassed, bdirty, bunder, bstream,
                   bwritten, bfailed>>

\* lines 574-575: the limiter runs the task of the next file, which calls
\* s3.getObject(file.path)
TransferStart ==
    /\ bpc = "transfer"
    /\ bj <= Len(bfiles)
    /\ LimitAdmits
    /\ bstream' = With(bstream, bj, "get")
    /\ bj' = bj + 1
    /\ UNCHANGED <<index, remote, nextId, createVars, bpc, bop, bmissing, bobjects, bi, bdeep,
                   bfiles, bfolders, tRemote, tLocal, bres, bpassed, bdirty, bunder,
                   bwritten, bfailed>>

\* line 575: s3.getObject settles; a rejection ends the task and rejects the
\* call, the limiter going on with the files still queued. Lines 578-582: on
\* success the body is piped to the write stream of the local file
GetObject ==
    \E j \in DOMAIN bstream :
        /\ bpc = "transfer"
        /\ bstream[j] = "get"
        /\ \/ /\ bfiles[j].path \in remote
              /\ bstream' = With(bstream, j, "streaming")
              /\ bres' = bres
           \/ /\ bstream' = Without(bstream, j)
              /\ bres' = IF bres = "none" THEN "GetObjectError" ELSE bres
        /\ UNCHANGED <<index, remote, nextId, createVars, bpc, bop, bmissing, bobjects, bi,
                       bdeep, bfiles, bfolders, tRemote, tLocal, bpassed, bdirty, bunder, bj,
                       bwritten, bfailed>>

\* line 599: the body emits 'end' and the task resolves; the local file has
\* the content unless the body was unpiped from its write stream
StreamEnd ==
    \E j \in DOMAIN bstream :
        /\ bpc = "transfer"
        /\ bstream[j] \in {"streaming", "unpiped"}
        /\ bwritten' = IF bstream[j] = "streaming" THEN Append(bwritten, bfiles[j].path)
                                                   ELSE bwritten
        /\ bstream' = Without(bstream, j)
        /\ UNCHANGED <<index, remote, nextId, createVars, bpc, bop, bmissing, bobjects, bi,
                       bdeep, bfiles, bfolders, tRemote, tLocal, bres, bpassed, bdirty, bunder,
                       bj, bfailed>>

\* line 598: the body emits 'error' and the task rejects
StreamError ==
    \E j \in DOMAIN bstream :
        /\ bpc = "transfer"
        /\ bstream[j] \in {"streaming", "unpiped"}
        /\ bstream' = Without(bstream, j)
        /\ bfailed' = bfailed \cup {"read"}
        /\ bres' = IF bres = "none" THEN "StreamError" ELSE bres
        /\ UNCHANGED <<index, remote, nextId, createVars, bpc, bop, bmissing, bobjects, bi,
                       bdeep, bfiles, bfolders, tRemote, tLocal, bpassed, bdirty, bunder, bj,
                       bwritten>>

\* lines 578-582, 597-600: the write stream of the local file emits 'error'.
\* The handler has no listener on it: pipe() unpipes the body and the error
\* is thrown as an uncaught exception. Where the process goes on, the body
\* keeps flowing to its 'data' listener until it ends or fails; where the
\* exception ends the process, no step of the call follows this one
WriteStreamError ==
    \E j \in DOMAIN bstream :
        /\ bpc = "transfer"
        /\ bstream[j] = "streaming"
        /\ bfailed' = bfailed \cup {"write"}
        /\ bstream' = With(bstream, j, "unpiped")
        /\ UNCHANGED <<index, remote, nextId, createVars, bpc, bop, bmissing, bobjects, bi,
                       bdeep, bfiles, bfolders, tRemote, tLocal, bres, bpassed, bdirty, bunder,
                       bj, bwritten>>

\* line 601: every transfer has resolved
DownloadReturn ==
    /\ bpc = "transfer"
    /\ bj > Len(bfiles)
    /\ DOMAIN bstream = {}
    /\ bpc' = "done"
    /\ bres' = IF bres = "none" THEN "ok" ELSE bres
    /\ UNCHANGED <<index, remote, nextId, createVars, bop, bmissing, bobjects, bi, bdeep,
                   bfiles, bfolders, tRemote, tLocal, bpassed, bdirty, bunder, bj, bstream,
                   bwritten, bfailed>>

downloadObjects ==
    \/ EngineFrame /\ \E ids \in IdLists(index) : BulkCall("download", ids)
    \/ EngineFrame /\ bop = "download" /\ ExpandFile
    \/ EngineFrame /\ bop = "download" /\ ExpandStart
    \/ EngineFrame /\ bop = "download" /\ ExpandFolder("files")
    \/ EngineFrame /\ bop = "download" /\ StartTransfers
    \/ EngineFrame /\ bop = "download" /\ TransferStart
    \/ EngineFrame /\ bop = "download" /\ GetObject
    \/ EngineFrame /\ bop = "download" /\ StreamEnd
    \/ EngineFrame /\ bop = "download" /\ StreamError
    \/ EngineFrame /\ bop = "download" /\ WriteStreamError
    \/ EngineFrame /\ bop = "download" /\ DownloadReturn

\* ------------------------------------------------------------ getObjects --
Space == 0 - 1
Minus == 0 - 2

\* keyword.split(' ')
RECURSIVE Split(_)
Split(text) ==
    IF text = <<>> THEN << <<>> >>
    ELSE LET rest == Split(Tail(text))
         IN  IF Head(text) = Space
                THEN << <<>> >> \o rest
                ELSE << <<Head(text)>> \o Head(rest) >> \o Tail(rest)

\* utils.parseKeyword: words are required terms, words led by '-' excluded terms
ParseKeyword(text) ==
    LET words == {w \in SeqToSet(Split(text)) : w # <<>>}
    IN  [plus |-> {w \in words : Head(w) # Minus},
         minus |-> {Tail(w) : w \in {x \in words : Head(x) = Minus}}]

\* lines 315-331: keywordConditions
KeywordConditions(keyword) ==
    IF keyword # <<>> THEN ParseKeyword(keyword) ELSE [plus |-> {}, minus |-> {}]

\* the where clause with dirname always matched as a prefix
InScope_Prefix(r, dirname, keyword) ==
    LET kc == KeywordConditions(keyword)
    IN  /\ LikePrefix(Dirname(r.path), dirname)
        /\ \A t \in kc.plus : LikeContains(r.path, t)
        /\ \A t \in kc.minus : ~ LikeContains(r.path, t)

\* lines 361-366: the dirname and keyword parts of the where clause
InScope(r, dirname, keyword) ==
    LET kc == KeywordConditions(keyword)
    IN  /\ IF kc.plus \cup kc.minus # {}
             THEN LikePrefix(Dirname(r.path), dirname)
             ELSE Dirname(r.path) = dirname
        /\ \A t \in kc.plus : LikeContains(r.path, t)
        /\ \A t \in kc.minus : ~ LikeContains(r.path, t)

\* the afterConditions letting through the records whose id is the cursor's
AfterCursor_Gte(r, cursor) ==
    \/ /\ r.type >= cursor.type
       /\ StrGt(Basename(r.path), Basename(cursor.path))
    \/ /\ r.type >= cursor.type
       /\ Basename(r.path) = Basename(cursor.path)
       /\ r.id >= cursor.id

\* lines 343-357: afterConditions, joined by Op.or
AfterCursor(r, cursor) ==
    \/ /\ r.type >= cursor.type
       /\ StrGt(Basename(r.path), Basename(cursor.path))
    \/ /\ r.type >= cursor.type
       /\ Basename(r.path) = Basename(cursor.path)
       /\ r.id > cursor.id

\* lines 368-372: order by type, basename, id ascending
KeyLess(x, y) ==
    \/ x.type < y.type
    \/ x.type = y.type /\ StrGt(Basename(y.path), Basename(x.path))
    \/ x.type = y.type /\ Basename(x.path) = Basename(y.path) /\ x.id < y.id

RECURSIVE Ordered(_)
Ordered(recs) ==
    IF recs = {} THEN <<>>
    ELSE LET r == CHOOSE x \in recs : \A y \in recs \ {x} : KeyLess(x, y)
         IN  <<r>> \o Ordered(recs \ {r})

\* lines 360-379: the query with limit + 1 rows and the page made of them
Page(recs, limit) ==
    LET all == Ordered(recs)
        objects == SubSeq(all, 1, IF Len(all) > limit + 1 THEN limit + 1 ELSE Len(all))
    IN  [hasNextPage |-> Len(objects) > limit,
         items |-> SubSeq(objects, 1, IF Len(objects) > limit THEN limit ELSE Len(objects))]

ListDirnames == {<<>>, <<1>>}
Keywords ==
    {<<>>} \cup {<<n>> : n \in Names} \cup {<<Minus, n>> : n \in Names}
        \cup {<<n, Space, Minus, m>> : n, m \in Names}

Returned(page) ==
    /\ litems' = page.items
    /\ lhasNext' = page.hasNextPage
    /\ lall' = lall \o page.items
    /\ lpc' = IF page.hasNextPage THEN "page" ELSE "done"
    /\ lres' = IF page.hasNextPage THEN lres ELSE "ok"

\* the first call of a paging session: getObjects without `after`
ListFirst(dirname, keyword, limit) ==
    /\ lpc = "idle"
    /\ largs' = [dirname |-> dirname, keyword |-> keyword, limit |-> limit]
    /\ lsnap' = index
    /\ Returned(Page({r \in index : InScope(r, dirname, keyword)}, limit))
    /\ UNCHANGED <<lafter, lcursor>>

\* lines 333-341: a further call with `after` the id of the last item: the
\* cursor lookup
ListCursor ==
    /\ lpc = "page"
    /\ lafter' = litems[Len(litems)].id
    /\ IF \E r \in index : r.id = lafter'
         THEN /\ lcursor' = CHOOSE r \in index : r.id = lafter'
              /\ lpc' = "query"
              /\ lres' = lres
         ELSE /\ lcursor' = lcursor
              /\ lpc' = "done"
              /\ lres' = "NotFoundError"
    /\ UNCHANGED <<largs, litems, lhasNext, lall, lsnap>>

\* lines 343-379: the query of that call
ListQuery ==
    /\ lpc = "query"
    /\ Returned(Page({r \in index : /\ InScope(r, largs.dirname, largs.keyword)
                                    /\ AfterCursor(r, lcursor)}, largs.limit))
    /\ UNCHANGED <<largs, lafter, lcursor, lsnap>>

ListFrame ==
    UNCHANGED <<index, remote, nextId, createVars, bulkVars, bdirty, bunder, setVars,
                getVars, viewVars>>

getObjects ==
    \/ ListFrame /\ \E d \in ListDirnames, k \in Keywords, n \in 1..MaxLimit : ListFirst(d, k, n)
    \/ ListFrame /\ ListCursor
    \/ ListFrame /\ ListQuery

\* index contents for the listings: the parent-closed subsets of a small tree
ListUniverse ==
    {Rec(1, FILE, <<1>>), Rec(2, FOLDER, <<2, Slash>>), Rec(3, FOLDER, <<1, Slash>>),
     Rec(4, FILE, <<2>>), Rec(5, FILE, <<1, Slash, 1>>), Rec(6, FOLDER, <<1, Slash, 2, Slash>>),
     Rec(7, FILE, <<1, Slash, 2, Slash, 1>>)}

ListSeeds ==
    {S \in SUBSET ListUniverse :
        \A r \in S : Dirname(r.path) # <<>> =>
            \E f \in S : f.type = FOLDER /\ f.path = Dirname(r.path) \o <<Slash>>}

InitL ==
    /\ index \in ListSeeds
    /\ remote = PathsOf(index)
    /\ nextId = Cardinality(ListUniverse) + 1
    /\ InitCreate
    /\ InitBulk
    /\ InitList
    /\ InitSettings
    /\ InitGet
    /\ InitView

\* -------------------------------------------------------------- getObject --
ContentTypes == {"image/", "video/", "other", "undefined"}

\* lines 386-391: findOne({where: {id}}); no record is a NotFoundError
FindObject(id) ==
    /\ gpc = "idle"
    /\ IF \E r \in index : r.id = id
         THEN /\ gobj' = CHOOSE r \in index : r.id = id
              /\ gpc' = "head"
              /\ gres' = gres
         ELSE /\ gobj' = gobj
              /\ gpc' = "done"
              /\ gres' = "NotFoundError"
    /\ UNCHANGED <<index, remote, gct, gurl>>

\* lines 393-403: s3.headObject(object.path); a url is asked for when the
\* content is an image or a video, else the result is returned
HeadForObjectImpl(cleanup) ==
    /\ gpc = "head"
    /\ \/ /\ gobj.path \in remote
          /\ \E ct \in ContentTypes :
                /\ gct' = ct
                /\ gpc' = IF ct \in {"image/", "video/"} THEN "sign" ELSE "done"
                /\ gres' = IF ct \in {"image/", "video/"} THEN gres ELSE "ok"
          /\ index' = index
       \/ /\ gpc' = "done"
          /\ gres' = "HeadError"
          /\ gct' = gct
          /\ index' = IF cleanup THEN {r \in index : r.id # gobj.id} ELSE index
    /\ UNCHANGED <<remote, gobj, gurl>>

\* the record of an object whose headObject failed is destroyed
HeadForObject_Cleanup == HeadForObjectImpl(TRUE)

HeadForObject == HeadForObjectImpl(FALSE)

\* lines 395-399: s3.getSignedUrl, for an image with expiresIn of an hour
SignUrl ==
    /\ gpc = "sign"
    /\ gpc' = "done"
    /\ \/ /\ gurl' = IF gct = "image/" THEN "3600" ELSE "default"
          /\ gres' = "ok"
       \/ /\ gurl' = gurl
          /\ gres' = "SignError"
    /\ UNCHANGED <<index, remote, gobj, gct>>

GetFrame ==
    UNCHANGED <<nextId, createVars, bulkVars, bdirty, bunder, listVars, setVars, viewVars>>

getObject ==
    \/ GetFrame /\ \E id \in IdsOf(index) \cup {nextId} : FindObject(id)
    \/ GetFrame /\ HeadForObject
    \/ GetFrame /\ SignUrl

\* ------------------------------------------------------ updateS3Settings --
SettingFields == {"accessKeyId", "secretAccessKey", "region", "bucket", "endpoint"}

\* values a caller passes; "" is a blank field, "undefined" an absent one
KeyIds == {"AK1", "AK2"}
Secrets == {"undefined", "", "SK1", "SK2"}
Places == {"p1", "p2"}

Truthy(v) == v \notin {"undefined", ""}

\* the values with secretAccessKey passed on whatever it is
UpsertValues_Always(args) ==
    [f \in {"id"} \cup SettingFields |-> IF f = "id" THEN MAIN_SETTINGS_ID ELSE args[f]]

\* lines 29-36: the values handed to upsert; secretAccessKey only when truthy
UpsertValues(args) ==
    [f \in {"id"} \cup (IF Truthy(args.secretAccessKey)
                          THEN SettingFields
                          ELSE SettingFields \ {"secretAccessKey"})
        |-> IF f = "id" THEN MAIN_SETTINGS_ID ELSE args[f]]

\* SettingsModel.upsert: insert the row, or update the given columns of the
\* row that has the same id
Upsert(table, values) ==
    IF \E row \in table : row.id = values.id
        THEN {IF row.id = values.id
                THEN [f \in DOMAIN row |-> IF f \in DOMAIN values THEN values[f] ELSE row[f]]
                ELSE row : row \in table}
        ELSE table \cup {[f \in {"id"} \cup SettingFields |->
                            IF f \in DOMAIN values THEN values[f] ELSE "null"]}

SetFrame ==
    UNCHANGED <<index, remote, nextId, createVars, bulkVars, bdirty, bunder, listVars,
                getVars, viewVars>>

\* lines 27-48: the call and its upsert
UpdateUpsert(args) ==
    /\ spc = "idle"
    /\ scount < MaxUpdates
    /\ scount' = scount + 1
    /\ sargs' = args
    /\ stable' = Upsert(stable, UpsertValues(args))
    /\ spc' = "find"
    /\ UNCHANGED <<sret, s3conf>>

\* lines 50-53: read the record back, hand it to the s3 adapter, return it
UpdateRefresh ==
    /\ spc = "find"
    /\ LET settings == CHOOSE row \in stable : row.id = MAIN_SETTINGS_ID
       IN  /\ s3conf' = [f \in SettingFields |-> settings[f]]
           /\ sret' = [f \in SettingFields |-> settings[f]]
    /\ spc' = "idle"
    /\ UNCHANGED <<stable, sargs, scount>>

updateS3Settings ==
    \/ SetFrame /\ \E k \in KeyIds, sk \in Secrets, r \in Places, b \in Places, e \in Places :
            UpdateUpsert([accessKeyId |-> k, secretAccessKey |-> sk, region |-> r,
                          bucket |-> b, endpoint |-> e])
    \/ SetFrame /\ UpdateRefresh

\* ---------------------------------------------------------- settings view --
Started == 1..(vnext - 1)

\* lines 45, 69: requestId = Math.random().toString(36), taken as an id no
\* other request has; lines 48-52, 71-75: the request is added to the pool by
\* a state update, then the API is called
ViewBegin(kind) ==
    /\ vnext <= MaxRequests
    /\ vpc' = Append(vpc, IF kind = "sync" THEN "syncing" ELSE "updating")
    /\ vkind' = Append(vkind, kind)
    /\ vnext' = vnext + 1
    /\ vqueue' = Append(vqueue, [op |-> "add", id |-> vnext, kind |-> kind])
    /\ UNCHANGED <<requestPool, isSyncSuccess, isSubmitSuccess>>

\* the state updates of the success path (lines 55, 87-90) and of `finally`
\* (lines 60-63, 96-99)
Settled(r, success, finally) ==
    (IF success THEN <<[op |-> "success", id |-> r, kind |-> vkind[r]]>> ELSE <<>>)
        \o (IF finally THEN <<[op |-> "delete", id |-> r, kind |-> vkind[r]]>> ELSE <<>>)

\* lines 54-55, 77-91: the awaited API call resolves; after updateS3Settings
\* the save handler goes on to syncObjectsFromS3
ApiResolves(r) ==
    /\ r \in Started
    /\ vpc[r] \in {"syncing", "updating"}
    /\ IF vpc[r] = "updating"
         THEN /\ vpc' = [vpc EXCEPT ![r] = "syncing"]
              /\ vqueue' = vqueue
         ELSE /\ vpc' = [vpc EXCEPT ![r] = "ok"]
              /\ vqueue' = vqueue \o Settled(r, TRUE, TRUE)
    /\ UNCHANGED <<vkind, vnext, requestPool, isSyncSuccess, isSubmitSuccess>>

\* lines 56-64, 92-100: the awaited API call rejects: catch, then finally
ApiRejectsImpl(r, finally) ==
    /\ r \in Started
    /\ vpc[r] \in {"syncing", "updating"}
    /\ vpc' = [vpc EXCEPT ![r] = "failed"]
    /\ vqueue' = vqueue \o Settled(r, FALSE, finally)
    /\ UNCHANGED <<vkind, vnext, requestPool, isSyncSuccess, isSubmitSuccess>>

\* the request removed from the pool on the success path only
ApiRejects_NoFinally(r) == ApiRejectsImpl(r, FALSE)

ApiRejects(r) == ApiRejectsImpl(r, TRUE)

\* the updater functions of lines 49-52, 72-75 and 60-63, 96-99
PoolUpdate(pool, u) ==
    IF u.op = "add" THEN pool \cup {u.id}
    ELSE IF u.op = "delete" THEN pool \ {u.id}
    ELSE pool

FlagUpdate(flag, u, kind) ==
    IF u.kind # kind THEN flag
    ELSE IF u.op = "add" THEN FALSE
    ELSE IF u.op = "success" THEN TRUE
    ELSE flag

\* React applies the state updates in the order setState was called
ApplyUpdate ==
    /\ vqueue # <<>>
    /\ requestPool' = PoolUpdate(requestPool, Head(vqueue))
    /\ isSyncSuccess' = FlagUpdate(isSyncSuccess, Head(vqueue), "sync")
    /\ isSubmitSuccess' = FlagUpdate(isSubmitSuccess, Head(vqueue), "save")
    /\ vqueue' = Tail(vqueue)
    /\ UNCHANGED <<vpc, vkind, vnext>>

\* lines 110, 228: the Save and Sync buttons are disabled while it holds
isApiProcessing == Cardinality(requestPool) > 0

ViewFrame ==
    UNCHANGED <<index, remote, nextId, createVars, bulkVars, bdirty, bunder, listVars, setVars,
                getVars>>

onClickSyncButton ==
    \/ ViewFrame /\ ViewBegin("sync")
    \/ ViewFrame /\ \E r \in Started : vkind[r] = "sync" /\ ApiResolves(r)
    \/ ViewFrame /\ \E r \in Started : vkind[r] = "sync" /\ ApiRejects(r)

onSubmitUpdateS3SettingsForm ==
    \/ ViewFrame /\ ViewBegin("save")
    \/ ViewFrame /\ \E r \in Started : vkind[r] = "save" /\ ApiResolves(r)
    \/ ViewFrame /\ \E r \in Started : vkind[r] = "save" /\ ApiRejects(r)

render == ViewFrame /\ ApplyUpdate

\* ------------------------------------------------------ specifications ---
\* one create call running against one bulk call
Next ==
    \/ createFolder("c1")
    \/ createFile("c1")
    \/ deleteObjects
    \/ downloadObjects

Spec == Init /\ [][Next]_vars

\* two create calls running against each other
NextCreate ==
    \/ \E p \in Creators : createFolder(p)
    \/ \E p \in Creators : createFile(p)

SpecCreate == Init /\ [][NextCreate]_vars

\* ----------------------------------------------------------- properties --
Done(p) == cpc[p] = "done"
NoFault(p) == cres[p] \in {"ok", "ConflictError"}
SamePath(p, q) == p # q /\ Done(p) /\ Done(q) /\ cobj[p].path = cobj[q].path
Foreign(p, q) == \E r \in index : r.path = cobj[p].path /\ r.id \notin {cobj[p].id, cobj[q].id}
Wins(w, l) ==
    /\ cres[w] = "ok" /\ cins[w]
    /\ cres[l] = "ConflictError" /\ cconf[l] = cobj[l].path
    /\ ccalls[l] = 0 /\ ~ cins[l]
    /\ Rec(cobj[w].id, cobj[w].type, cobj[w].path) \in index

\* C1: the index never holds two records with one path; and of two create
\* calls for the same fresh path P that both reach the insert and hit no
\* store or remote fault, exactly one succeeds, the other fails with a
\* ConflictError carrying P, has issued no remote call, and the record of P is
\* still the winner's
C1_UniquePath ==
    /\ \A r1, r2 \in index : r1.path = r2.path => r1 = r2
    /\ \A p, q \in Creators :
         (SamePath(p, q) /\ NoFault(p) /\ NoFault(q) /\ ~ Foreign(p, q))
            => ((Wins(p, q) /\ ~ Wins(q, p)) \/ (Wins(q, p) /\ ~ Wins(p, q)))

C1_Witness ==
    \E p, q \in Creators : SamePath(p, q) /\ Wins(p, q) /\ cobj[p].type = FILE

ParentOf(path) == {r \in index : r.type = FOLDER /\ r.path = Dirname(path) \o <<Slash>>}

\* C2: a create call whose object has a non-empty dirname with no FOLDER record
\* `dirname/` fails with NotFoundError, and it inserts no record and issues no
\* remote call: index and remote store are left as they were
C2_ParentMissing ==
    /\ [](\A p \in Creators :
            cres[p] = "NotFoundError" => (Done(p) /\ ~ cins[p] /\ ccalls[p] = 0 /\ cobj[p].id = 0))
    /\ [][\A p \in Creators :
            (cpc[p] = "idle" /\ cpc'[p] # "idle"
                /\ Dirname(cobj'[p].path) # <<>> /\ ParentOf(cobj'[p].path) = {})
              => (cres'[p] = "NotFoundError" /\ cpc'[p] = "done"
                    /\ index' = index /\ remote' = remote /\ nextId' = nextId)]_vars

C2_Witness ==
    \E p \in Creators : cres[p] = "NotFoundError" /\ index # {} /\ ParentOf(cobj[p].path) = {}

\* C3: when createFile returns the failure of its upload, headObject or final
\* update, the provisional record it inserted is not in the index
C3_Compensation ==
    \A p \in Creators :
        cres[p] \in {"UploadError", "HeadError", "UpdateError"}
            => (cins[p] /\ cobj[p].id \notin IdsOf(index))

C3_Witness ==
    \E p \in Creators : cres[p] = "HeadError" /\ cins[p] /\ cobj[p].path \in remote

SelectedFolders == {bobjects[k].path : k \in {n \in 1..Len(bobjects) : bobjects[n].type = FOLDER}}

\* C5: after a successful deleteObjects that no other call disturbed, no record
\* whose path starts with the path of a selected folder remains, and every
\* path that was under a selected folder was passed to the remote delete
C5_RecursiveDelete ==
    (bop = "delete" /\ bres = "ok" /\ ~ bdirty)
        => /\ \A r \in index : \A f \in SelectedFolders : ~ StartsWith(r.path, f)
           /\ bunder \subseteq bpassed
           /\ SelectedFolders \subseteq bpassed

C5_Witness ==
    /\ bop = "delete" /\ bres = "ok" /\ ~ bdirty
    /\ \E f \in SelectedFolders : \E u \in bunder : Len(u) >= Len(f) + 3

\* C6: a bulk call whose ids name an id without a record fails with
\* NotFoundError, having issued no remote request and no destroy and written
\* nothing: index and remote store are the same after the call as before
C6_ValidateFirst ==
    /\ [](bmissing => /\ bres = "NotFoundError" /\ bpc = "done"
                      /\ tRemote = NoTask /\ tLocal = NoTask
                      /\ bpassed = {} /\ bwritten = <<>> /\ bj = 0)
    /\ [][(bpc = "idle" /\ bmissing') => (index' = index /\ remote' = remote)]_vars

C6_Witness ==
    bmissing /\ bop = "delete" /\ bres = "NotFoundError" /\ Len(bobjects) > 0

\* C7: every record with a non-empty dirname has a FOLDER record `dirname/`
C7_ParentExists ==
    \A r \in index : Dirname(r.path) # <<>> => ParentOf(r.path) # {}

Quiescent ==
    /\ \A p \in Creators : cpc[p] \in {"idle", "done"}
    /\ bpc \in {"idle", "done"}
    /\ tRemote.st # "pending" /\ tLocal.st # "pending"

\* C8: once every call has completed, a path has an index record exactly when
\* the remote store holds an object at that path
C8_Consistent ==
    Quiescent => PathsOf(index) = remote

\* a paging session of getObjects running against one create call
NextList ==
    \/ getObjects
    \/ createFolder("c1")
    \/ createFile("c1")

SpecList == InitL /\ [][NextList]_vars

\* C4: a completed paging session over a directory has returned every record
\* that was in the directory when it started exactly once, in ascending
\* (type, basename, id) order
C4_PagingComplete ==
    (lpc = "done" /\ lres = "ok" /\ largs.keyword = <<>>)
        => /\ \A r \in lsnap : Dirname(r.path) = largs.dirname
                => Cardinality({k \in 1..Len(lall) : lall[k] = r}) = 1
           /\ \A k \in 1..(Len(lall) - 1) : KeyLess(lall[k], lall[k + 1])

\* C9: without keyword every returned record has exactly the requested dirname;
\* with a keyword every returned record has a dirname starting with the
\* requested one and a path that contains every plus term and no minus term
C9_Scope ==
    \A k \in 1..Len(litems) :
        LET r == litems[k]
        IN  IF largs.keyword = <<>>
              THEN Dirname(r.path) = largs.dirname
              ELSE /\ StartsWith(Dirname(r.path), largs.dirname)
                   /\ \A t \in ParseKeyword(largs.keyword).plus : Contains(r.path, t)
                   /\ \A t \in ParseKeyword(largs.keyword).minus : ~ Contains(r.path, t)

C9_Witness ==
    /\ largs.keyword = <<1, Space, Minus, 2>>
    /\ largs.dirname = <<>>
    /\ \E k \in 1..Len(lall) : Dirname(lall[k].path) # largs.dirname
    /\ lafter # 0

\* updateS3Settings called again and again
NextSettings == updateS3Settings

SpecSettings == Init /\ [][NextSettings]_vars

StoredSecret(table) ==
    IF table = {} THEN "null" ELSE (CHOOSE row \in table : TRUE).secretAccessKey

\* C10: the settings table never holds more than the record with the singleton
\* id; an update with a blank or absent secretAccessKey leaves the stored
\* secretAccessKey as it was and replaces accessKeyId, region, bucket, endpoint
C10_Singleton ==
    /\ [](Cardinality(stable) <= 1 /\ \A row \in stable : row.id = MAIN_SETTINGS_ID)
    /\ [][(spc = "idle" /\ spc' = "find" /\ ~ Truthy(sargs'.secretAccessKey))
            => /\ StoredSecret(stable') = StoredSecret(stable)
               /\ \A row \in stable' :
                    \A f \in SettingFields \ {"secretAccessKey"} : row[f] = sargs'[f]]_vars

C10_Witness ==
    /\ scount >= 2
    /\ spc = "find"
    /\ sargs.secretAccessKey = ""
    /\ StoredSecret(stable) = "SK1"
    /\ sargs.accessKeyId # s3conf.accessKeyId

InScopeNow(r) == InScope(r, largs.dirname, largs.keyword)

\* C11: for the cursor record c of a call, the in-scope records getObjects
\* selects as after c are exactly the in-scope records that sort strictly
\* after c in (type, basename, id) order
C11_AfterExact ==
    lpc = "query"
        => \A r \in index : InScopeNow(r) => (AfterCursor(r, lcursor) <=> KeyLess(lcursor, r))

InsertFailed(p) == cres[p] \in {"ConflictError", "SaveError"}

\* C12: createFolder issues its putObject only after its insert of the folder
\* record succeeded: a call whose insert failed, by a conflict or another
\* error, has issued no putObject, and no marker is put for a record that
\* was not inserted
C12_LocalFirst ==
    /\ [](\A p \in Creators :
            cobj[p].type = FOLDER
                => /\ ccalls[p] > 0 => cins[p]
                   /\ InsertFailed(p) => (Done(p) /\ ccalls[p] = 0 /\ ~ cins[p]))
    /\ [][\A p \in Creators :
            (cobj[p].type = FOLDER /\ ccalls'[p] # ccalls[p])
                => (cins[p] /\ cobj[p].id # 0 /\ cobj[p].id < nextId)]_vars

C12_Witness ==
    \E p \in Creators :
        /\ cobj[p].type = FOLDER /\ cres[p] = "ConflictError"
        /\ cobj[p].path \in remote /\ ccalls[p] = 0

Segments(path) == Cardinality({k \in 1..Len(path) : path[k] = Slash}) + 1
Descendant(d, a) == d # a /\ StartsWith(d, a)
FolderAt(k) == k \in 1..Len(tRemote.paths) /\ IsFolderPath(tRemote.paths[k])

\* C13: in the list of folder paths deleteObjects passes to the remote delete
\* the paths are in descending order of their number of segments, so every
\* folder path comes after all the collected paths of its descendants
C13_DeepestFirst ==
    bop = "delete"
        => \A i, j \in 1..Len(tRemote.paths) :
             (FolderAt(i) /\ FolderAt(j))
                => /\ Descendant(tRemote.paths[j], tRemote.paths[i]) => j < i
                   /\ i < j => Segments(tRemote.paths[i]) >= Segments(tRemote.paths[j])

C13_Witness ==
    /\ bop = "delete"
    /\ Len(bobjects) = 2
    /\ \E i, j \in 1..Len(tRemote.paths) :
         /\ FolderAt(i) /\ FolderAt(j) /\ i < j
         /\ Descendant(tRemote.paths[i], tRemote.paths[j])

\* C14: deleteObjects has not returned, with success or with failure, while
\* the remote deletion or the destruction of records it issued for a batch is
\* still in progress
C14_BothAwaited ==
    (bop = "delete" /\ bres # "none")
        => (tRemote.st # "pending" /\ tLocal.st # "pending")

\* C15: within one bulk call at most one task of the limiter is in flight:
\* folder expansions run one at a time, no transfer is in flight before every
\* expansion has finished, and a transfer starts only when no other is in
\* flight
C15_OneInFlight ==
    /\ [](/\ ActiveCount <= 1
          /\ DOMAIN bstream # {} => ExpansionsDone)
    /\ [][(DOMAIN bstream' \ DOMAIN bstream # {})
            => (DOMAIN bstream = {} /\ ExpansionsDone)]_vars
    /\ [][(DOMAIN bdeep' \ DOMAIN bdeep # {})
            => (DOMAIN bdeep = {} /\ DOMAIN bstream = {})]_vars

C15_Witness ==
    /\ bop = "download" /\ bres = "ok"
    /\ Len(bobjects) = 2 /\ SelectedFolders # {}
    /\ Len(bwritten) >= 2

\* C16: once a stream of a transfer of downloadObjects, the remote read stream
\* or the local write stream, has emitted an error, the call does not report
\* success: when its transfers are over it has failed
C16_StreamErrorFails ==
    (bop = "download" /\ bfailed # {})
        => /\ bres # "ok"
           /\ bpc = "done" => bres \in {"GetObjectError", "StreamError"}

\* C17: deleteObjects and downloadObjects validate ids alike: for the same
\* list of ids, a list repeating an id included, and the same index either
\* both reject the call with NotFoundError or neither does
C17_SameValidation ==
    \A ids \in IdLists(index) :
        LET objects == FindByIds(index, ids)
        IN  (DeleteValidation(objects, ids) = "NotFoundError")
                <=> (DownloadValidation(objects, ids) = "NotFoundError")

FileBatch == Len(bfiles) > 0 /\ tRemote.paths = PathSeq(bfiles) /\ tLocal.ids = IdSet(bfiles)
FolderBatch == Len(bfolders) > 0 /\ tLocal.ids = IdSet(bfolders)
FilePhaseFailed == FileBatch /\ (tRemote.st = "err" \/ tLocal.st = "err")
FoldersUntouched ==
    \A k \in 1..Len(bfolders) : bfolders[k] \in index /\ bfolders[k].path \notin bpassed

\* C18: deleteObjects issues the deletion of the folder markers and the
\* destruction of the folder records only when the remote deletion and the
\* destruction of the records of all collected files have both succeeded;
\* until then every collected folder has its record and its marker, and when
\* the file phase fails the call fails with all of them still there
C18_FilesFirst ==
    /\ []((bop = "delete" /\ ~ FolderBatch) => FoldersUntouched)
    /\ []((bop = "delete" /\ FilePhaseFailed)
            => (bpc = "done" /\ bres \in {"RemoteError", "DestroyError"} /\ FoldersUntouched))
    /\ [][(bop = "delete" /\ ~ FolderBatch /\ FolderBatch')
            => /\ Len(bfiles) > 0 => (FileBatch /\ tRemote.st = "ok" /\ tLocal.st = "ok")
               /\ \A k \in 1..Len(bfiles) : bfiles[k].id \notin IdsOf(index)]_vars

C18_Witness ==
    /\ bop = "delete" /\ FilePhaseFailed /\ tLocal.st = "ok"
    /\ Len(bfolders) >= 2

\* C19: every item of a page returned for a cursor sorts strictly after the
\* cursor record in (type, basename, id) order, and over an unchanged index a
\* session of cursor-chained pages returns no record twice
C19_NoRepeat ==
    /\ (lpc \in {"page", "done"} /\ lafter # 0 /\ lres # "NotFoundError")
            => \A k \in 1..Len(litems) : KeyLess(lcursor, litems[k])
    /\ index = lsnap
            => \A i, j \in 1..Len(lall) : i < j => lall[i].id # lall[j].id

C19_Witness ==
    /\ lpc = "done" /\ lres = "ok" /\ lafter # 0 /\ index = lsnap
    /\ Len(litems) > 0 /\ Len(lall) >= Len(litems) + 2
    /\ \E k \in 1..Len(litems) : litems[k].type = lcursor.type

Writes(path) == Cardinality({n \in 1..Len(bwritten) : bwritten[n] = path})

\* C20: a downloadObjects call that succeeded with no stream error has fetched
\* and written each FILE record it collected exactly once, also when the
\* ids select a folder together with a file or a folder inside it
C20_OncePerFile ==
    (bop = "download" /\ bres = "ok" /\ bfailed = {})
        => \A k \in 1..Len(bfiles) : Writes(bfiles[k].path) = 1

\* index contents for the reading handlers
ReadSeeds ==
    {S \in SeedIndexes : Cardinality(S) <= 1}
        \cup {{Rec(1, FOLDER, <<1, Slash>>), Rec(2, FILE, <<1, Slash, 1>>)}}

InitRead ==
    /\ index \in ReadSeeds
    /\ remote = PathsOf(index)
    /\ nextId = Cardinality(index) + 1
    /\ InitCreate
    /\ InitBulk
    /\ InitList
    /\ InitSettings
    /\ InitGet
    /\ InitView

\* the three reading handlers running against each other
NextRead ==
    \/ getObjects
    \/ getObject
    \/ downloadObjects

SpecRead == InitRead /\ [][NextRead]_vars

ReaderStep ==
    \/ listVars' # listVars
    \/ getVars' # getVars
    \/ bop' = "download" /\ bulkVars' # bulkVars

\* C21: no step of getObjects, getObject or downloadObjects, whatever the
\* outcome of the call, changes the index or the remote store: no record is
\* inserted, updated or destroyed and no object is put or deleted remotely
C21_ReadOnly ==
    [][ReaderStep => (index' = index /\ remote' = remote /\ nextId' = nextId)]_vars

C21_Witness ==
    /\ lpc = "done" /\ Len(lall) > 0
    /\ gpc = "done" /\ gres = "HeadError"
    /\ bop = "download" /\ bpc = "done" /\ bres = "ok" /\ Len(bwritten) > 0

\* sync and save requests of the settings view running against each other
NextView ==
    \/ onClickSyncButton
    \/ onSubmitUpdateS3SettingsForm
    \/ render

SpecView == Init /\ [][NextView]_vars

InFlight == {r \in Started : vpc[r] \in {"syncing", "updating"}}

RECURSIVE PoolAfter(_, _)
PoolAfter(pool, queue) ==
    IF queue = <<>> THEN pool ELSE PoolAfter(PoolUpdate(pool, Head(queue)), Tail(queue))

\* C22: the request pool of the settings view, with the state updates already
\* passed to setState applied, holds exactly the ids of the requests in
\* flight; once every handler has finished and the updates are applied the
\* pool is empty and the buttons are enabled, whether the calls failed or not
C22_PoolTracks ==
    /\ PoolAfter(requestPool, vqueue) = InFlight
    /\ requestPool \subseteq Started
    /\ (InFlight = {} /\ vqueue = <<>>) => (requestPool = {} /\ ~ isApiProcessing)

C22_Witness ==
    /\ InFlight = {} /\ vqueue = <<>> /\ ~ isApiProcessing
    /\ \E r, q \in Started :
         /\ vkind[r] = "sync" /\ vpc[r] = "failed"
         /\ vkind[q] = "save" /\ vpc[q] = "ok"
    /\ isSubmitSuccess /\ ~ isSyncSuccess
====
